---- MODULE Spec2Model ----
(***************************************************************************)
(* safmat: standalone text formatting library (safmat.hpp).                *)
(* The model follows xformat_to one step of its scan at a time and the     *)
(* built-in formatters' parse / format_to as operators over the template   *)
(* memory, the argument list and the per-argument formatter object.        *)
(*                                                                         *)
(* Characters are one-character strings; a text is a sequence of them.     *)
(* The character '\0' is written NUL.                                      *)
(***************************************************************************)
EXTENDS Integers, Sequences, FiniteSets, TLC

VARIABLES fmt, sentinel, args, it, carg, out, pc, cur, curAuto, err,
          nauto, nnext, outAtOpen, itAtOpen, maxread

vars == <<fmt, sentinel, args, it, carg, out, pc, cur, curAuto, err,
          nauto, nnext, outAtOpen, itAtOpen, maxread>>

(***************************************************************************)
(* Bounds of the model.                                                    *)
(***************************************************************************)
\* longest template of the exhaustive enumeration
MaxLen == 4
\* largest literal width of the enumerated specifiers (one digit)
MaxWidth == 6
\* largest literal precision of the enumerated specifiers (one digit)
MaxPrec == 3

(***************************************************************************)
(* Characters.                                                             *)
(***************************************************************************)
NUL == "NUL"

Digits == {"0", "1", "2", "3", "4", "5", "6", "7", "8", "9"}

DigitChars == <<"0", "1", "2", "3", "4", "5", "6", "7", "8", "9",
                "a", "b", "c", "d", "e", "f">>

isdigit(c) ==
  c \in Digits

DigitVal(c) ==
  CHOOSE d \in 0..9 : DigitChars[d + 1] = c

Max(a, b) ==
  IF a >= b THEN a ELSE b

Min(a, b) ==
  IF a <= b THEN a ELSE b

Rep(n, c) ==
  [i \in 1..n |-> c]

\* value of a size_t that no std::string can hold (a negative value converted)
HugeSize == 1000000

(***************************************************************************)
(* Template memory.  A std::string_view of length n may be read at         *)
(* positions 0..n-1.  The code also dereferences the iterator at position  *)
(* n and beyond; what is stored there is not part of the view: position n  *)
(* holds `sentinel` (NUL when the view ends a C string, anything else      *)
(* when it is a prefix of a longer buffer), followed by NUL.               *)
(***************************************************************************)
Mem(i) ==
  IF i < Len(fmt) THEN fmt[i + 1]
  ELSE IF i = Len(fmt) THEN sentinel
  ELSE NUL

\* the digit loop of parse_number and of the explicit index
RECURSIVE NumEnd(_)
NumEnd(in) ==
  IF isdigit(Mem(in)) THEN NumEnd(in + 1) ELSE in

RECURSIVE NumVal(_, _)
NumVal(in, n) ==
  IF isdigit(Mem(in)) THEN NumVal(in + 1, n * 10 + DigitVal(Mem(in))) ELSE n

(***************************************************************************)
(* Error messages of format_error, and the exception std::string throws    *)
(* when asked for an impossible length.                                    *)
(***************************************************************************)
ErrNotEnough == "Not enough format arguments."
ErrExpectedClose == "Expected '}'."
ErrEscape == "'}' must be escaped with '}'."
ErrNestedClose == "Expected '}' for nested argument."
ErrExpectedSize == "Expected size as the nested argument."
ErrExpectedPrec == "Expected precision."
ErrLocale == "Locale-specific formatting is not implemented/supported."
ErrUnimplemented == "Unimplemented operation."
ExcLength == "std::length_error"

FormatErrors ==
  {ErrNotEnough, ErrExpectedClose, ErrEscape, ErrNestedClose, ErrExpectedSize,
   ErrExpectedPrec, ErrLocale, ErrUnimplemented}

(***************************************************************************)
(* NestedSizeArgFormatter: arg_rep is monostate | size_t | optional<size_t>*)
(* (kind "mono" | "direct" | "indirect", val -1 = empty optional) and arg  *)
(* the resolved size (-1 = no value).                                      *)
(***************************************************************************)
NestedSizeArgFormatter ==
  [kind |-> "mono", val |-> 0, arg |-> -1]

(***************************************************************************)
(* Parsing.  A parse operator maps a cursor state to a cursor state:       *)
(* f the formatter object, in the cursor, hi the highest position          *)
(* dereferenced so far, ok the bool result of the last                     *)
(* NestedSizeArgFormatter::parse, err the message of the format_error      *)
(* thrown ("" = none).  After a throw nothing more is parsed.              *)
(***************************************************************************)
MkFormatter(fill, padding, rep) ==
  [fill |-> fill, padding |-> padding, sign |-> "-", alternate |-> FALSE,
   pad_zero |-> FALSE, rep |-> rep,
   w |-> NestedSizeArgFormatter, p |-> NestedSizeArgFormatter]

Cursor(f, in) ==
  [f |-> f, in |-> in, hi |-> -1, ok |-> FALSE, err |-> ""]

\* NestedSizeArgFormatter::parse for the member m ("w" width, "p" precision)
NSA_parse(st, m) ==
  IF st.err # "" THEN st
  ELSE IF isdigit(Mem(st.in))
  THEN [st EXCEPT !.f[m].kind = "direct", !.f[m].val = NumVal(st.in, 0),
                  !.in = NumEnd(st.in), !.hi = Max(@, NumEnd(st.in)),
                  !.ok = TRUE]
  ELSE IF Mem(st.in) = "{"
  THEN LET hasIdx == isdigit(Mem(st.in + 1))
           in2 == IF hasIdx THEN NumEnd(st.in + 1) ELSE st.in + 1
       IN IF Mem(in2) # "}"
          THEN [st EXCEPT !.in = in2, !.hi = Max(@, in2), !.ok = FALSE,
                          !.err = ErrNestedClose]
          ELSE [st EXCEPT !.f[m].kind = "indirect",
                          !.f[m].val = IF hasIdx THEN NumVal(st.in + 1, 0)
                                       ELSE -1,
                          !.in = in2 + 1, !.hi = Max(@, in2), !.ok = TRUE]
  ELSE [st EXCEPT !.hi = Max(@, st.in), !.ok = FALSE]

\* the T of the Formatter<T> whose parse and format_to run for an argument
FormatterT(type) ==
  CASE type = "bool" -> "unsigned"
    [] type = "char" -> "int"
    [] type = "vec" -> "int"
    [] OTHER -> type

\* Formatter<T>{} : the default-constructed formatter of an argument type
DefaultFormatter(type) ==
  CASE type = "bool" -> MkFormatter(">", NUL, "s")
    [] type = "char" -> MkFormatter(">", NUL, "c")
    [] type \in {"int", "schar", "vec"} -> MkFormatter(">", NUL, "d")
    [] OTHER -> MkFormatter("<", " ", NUL)

is_fill(ch) ==
  ch \in {"<", ">", "^"}

parse_fill(st) ==
  IF st.err # "" THEN st
  ELSE IF is_fill(Mem(st.in))
  THEN [st EXCEPT !.f.padding = " ", !.f.fill = Mem(st.in),
                  !.in = st.in + 1, !.hi = Max(@, st.in)]
  ELSE IF Mem(st.in) # NUL /\ is_fill(Mem(st.in + 1))
  THEN [st EXCEPT !.f.padding = Mem(st.in), !.f.fill = Mem(st.in + 1),
                  !.in = st.in + 2, !.hi = Max(@, st.in + 1)]
  ELSE [st EXCEPT !.hi = Max(@, IF Mem(st.in) = NUL THEN st.in ELSE st.in + 1)]

parse_width(st) ==
  NSA_parse(st, "w")

\* PaddedFormatter::parse
Padded_parse(st) ==
  parse_width(parse_fill(st))

parse_prec(st) ==
  IF st.err # "" THEN st
  ELSE IF Mem(st.in) = "."
  THEN LET r == NSA_parse([st EXCEPT !.in = st.in + 1], "p")
       IN IF r.err = "" /\ ~r.ok THEN [r EXCEPT !.err = ErrExpectedPrec] ELSE r
  ELSE [st EXCEPT !.hi = Max(@, st.in)]

\* NumericFormatter::parse, "Parse sign."
Numeric_sign(st) ==
  IF st.err # "" THEN st
  ELSE IF Mem(st.in) \in {"+", "-", " "}
  THEN [st EXCEPT !.f.sign = Mem(st.in), !.in = st.in + 1, !.hi = Max(@, st.in)]
  ELSE [st EXCEPT !.hi = Max(@, st.in)]

\* NumericFormatter::parse, "Parse alternate form."
Numeric_alternate(st) ==
  IF st.err # "" THEN st
  ELSE IF Mem(st.in) = "#"
  THEN [st EXCEPT !.f.alternate = TRUE, !.in = st.in + 1, !.hi = Max(@, st.in)]
  ELSE [st EXCEPT !.hi = Max(@, st.in)]

\* a `0` flag that turns zero-pad mode on whatever the padding is
Numeric_zero_always(st) ==
  IF st.err # "" THEN st
  ELSE IF Mem(st.in) = "0"
  THEN [st EXCEPT !.f.pad_zero = TRUE, !.in = st.in + 1, !.hi = Max(@, st.in)]
  ELSE [st EXCEPT !.hi = Max(@, st.in)]

\* NumericFormatter::parse, "Parse '0'."
Numeric_zero(st) ==
  IF st.err # "" THEN st
  ELSE IF Mem(st.in) = "0"
  THEN [st EXCEPT !.f.pad_zero = (st.f.padding = NUL), !.in = st.in + 1,
                  !.hi = Max(@, st.in)]
  ELSE [st EXCEPT !.hi = Max(@, st.in)]

\* NumericFormatter::parse
Numeric_parse(st) ==
  parse_width(Numeric_zero(Numeric_alternate(Numeric_sign(parse_fill(st)))))

\* IntegralFormatter::parse, "Parse 'L'." and "Parse rep."
Integral_rep(st, is_bool) ==
  IF st.err # "" THEN st
  ELSE IF Mem(st.in) = "L"
  THEN [st EXCEPT !.hi = Max(@, st.in), !.err = ErrLocale]
  ELSE IF Mem(st.in) \in {"b", "B", "c", "d", "o", "x", "X"}
  THEN [st EXCEPT !.f.rep = Mem(st.in), !.in = st.in + 1, !.hi = Max(@, st.in)]
  ELSE IF Mem(st.in) = "}"
  THEN [st EXCEPT !.hi = Max(@, st.in)]
  ELSE IF Mem(st.in) = "s" /\ is_bool
  THEN [st EXCEPT !.f.rep = Mem(st.in), !.in = st.in + 1, !.hi = Max(@, st.in)]
  ELSE [st EXCEPT !.hi = Max(@, st.in), !.err = ErrExpectedClose]

\* IntegralFormatter::parse
Integral_parse(st, is_bool) ==
  Integral_rep(Numeric_parse(st), is_bool)

\* StringFormatter::parse, the optional 's'
String_rep(st) ==
  IF st.err # "" THEN st
  ELSE IF Mem(st.in) = "s"
  THEN [st EXCEPT !.in = st.in + 1, !.hi = Max(@, st.in)]
  ELSE [st EXCEPT !.hi = Max(@, st.in)]

\* StringFormatter::parse
String_parse(st) ==
  String_rep(parse_prec(Padded_parse(st)))

\* FormatArgImpl<T>::parse : fmt.parse(in) of the argument's formatter
Formatter_parse(type, st) ==
  CASE type = "str" -> String_parse(st)
    [] type = "pair" -> Padded_parse(st)
    [] OTHER -> Integral_parse(st, FormatterT(type) = "bool")

(***************************************************************************)
(* Arguments.  type is the C++ type of the value: "int", "schar" (signed   *)
(* char held as a number), "bool", "char", "str" (string-like), "vec"      *)
(* (std::vector<int>), "pair" (std::pair<int, const char*>).  n holds the  *)
(* integral value (or the pair's first), s the text (or the pair's         *)
(* second), v the elements, f the formatter object.                        *)
(***************************************************************************)
IntegralTypes == {"int", "schar", "bool", "char"}

\* FormatArgImpl<T>::to_size_t: -1 stands for the empty optional
to_size_t(a) ==
  IF a.type \in IntegralTypes
  THEN (IF a.n >= 0 THEN a.n ELSE HugeSize)
  ELSE -1

\* a bound check that is off by one
ctx_has_le(a, idx) ==
  idx <= Len(a)

\* FormatContext::operator[] : the bound check
ctx_has(a, idx) ==
  idx < Len(a)

\* a coercion that takes a non-integral argument for the size 0
expect_size_t_lenient(a, idx) ==
  IF ~ctx_has(a, idx) THEN [n |-> -1, err |-> ErrNotEnough]
  ELSE IF to_size_t(a[idx + 1]) = -1 THEN [n |-> 0, err |-> ""]
  ELSE [n |-> to_size_t(a[idx + 1]), err |-> ""]

\* FormatArg::expect_size_t applied to ctx[idx]: the size, or the message
expect_size_t(a, idx) ==
  IF ~ctx_has(a, idx) THEN [n |-> -1, err |-> ErrNotEnough]
  ELSE IF to_size_t(a[idx + 1]) = -1 THEN [n |-> -1, err |-> ErrExpectedSize]
  ELSE [n |-> to_size_t(a[idx + 1]), err |-> ""]

(***************************************************************************)
(* Rendering.  A format operator maps a sink state to a sink state: out    *)
(* the text written to the sink by this format_to, f the formatter (its    *)
(* resolved sizes are cached in it), carg the auto cursor, k the number of *)
(* ctx.next() calls, err the exception thrown ("" = none).  After a throw  *)
(* nothing more is written.                                                *)
(***************************************************************************)
Sink(f, c) ==
  [out |-> <<>>, f |-> f, carg |-> c, k |-> 0, err |-> ""]

write(st, s) ==
  IF st.err # "" THEN st ELSE [st EXCEPT !.out = @ \o s]

\* the assignment to arg in NestedSizeArgFormatter::read
NSA_assign(st, m, r) ==
  IF r.err # "" THEN [st EXCEPT !.err = r.err]
  ELSE [st EXCEPT !.f[m].arg = r.n]

\* NestedSizeArgFormatter::read for the member m; a is ctx.args
NSA_read(st, m, a) ==
  IF st.err # "" THEN st
  ELSE IF st.f[m].arg # -1 THEN st
  ELSE IF st.f[m].kind = "direct"
  THEN [st EXCEPT !.f[m].arg = st.f[m].val]
  ELSE IF st.f[m].kind = "indirect"
  THEN IF st.f[m].val # -1
       THEN NSA_assign(st, m, expect_size_t(a, st.f[m].val))
       ELSE NSA_assign([st EXCEPT !.carg = @ + 1, !.k = @ + 1], m,
                       expect_size_t(a, st.carg))
  ELSE st

read_width(st, a) ==
  NSA_read(st, "w", a)

read_prec(st, a) ==
  NSA_read(st, "p", a)

width(f) ==
  IF f.w.arg = -1 THEN 0 ELSE f.w.arg

\* the longest pad std::string builds; a longer one throws std::length_error
MaxPad == HugeSize \div 4

\* std::string pad(n, ch); out.write(pad);
write_pad(st, n, ch) ==
  IF st.err # "" THEN st
  ELSE IF n > MaxPad THEN [st EXCEPT !.err = ExcLength]
  ELSE [st EXCEPT !.out = @ \o Rep(n, ch)]

print_padding(st, len, add) ==
  write_pad(st, IF st.f.fill = "^" THEN (len + add) \div 2 ELSE len,
            st.f.padding)

pre_format(st, len) ==
  IF st.err = "" /\ len < width(st.f) /\ st.f.fill \in {">", "^"}
  THEN print_padding(st, width(st.f) - len, 0)
  ELSE st

post_format(st, len) ==
  IF st.err = "" /\ len < width(st.f) /\ st.f.fill \in {"<", "^"}
  THEN print_padding(st, width(st.f) - len, 1)
  ELSE st

\* std::to_chars(buffer, end, x, base)
RECURSIVE to_digits(_, _)
to_digits(x, base) ==
  IF x < base THEN <<DigitChars[x + 1]>>
  ELSE to_digits(x \div base, base) \o <<DigitChars[(x % base) + 1]>>

to_chars(x, base) ==
  IF x < 0 THEN <<"-">> \o to_digits(-x, base) ELSE to_digits(x, base)

\* std::string(1, static_cast<char>(x)) : the character of code x
char_text(x) ==
  <<CASE x = 0 -> NUL
      [] x = 42 -> "*"
      [] x = 88 -> "X"
      [] x = 97 -> "a"
      [] OTHER -> "chr" \o ToString(x)>>

\* the lambda f of Formatter<T>::format_to
number_text(x, base) ==
  IF base = 0 THEN char_text(x)
  ELSE IF base = 1 THEN (IF x # 0 THEN <<"t", "r", "u", "e">>
                         ELSE <<"f", "a", "l", "s", "e">>)
  ELSE to_chars(x, base)

\* sign_str of NumericFormatter::format
sign_str(f, negative) ==
  IF negative THEN <<"-">>
  ELSE IF f.sign # "-" THEN <<f.sign>> ELSE <<>>

\* NumericFormatter::format, the pad of the pad_zero branch
zero_pad(st, len) ==
  IF len < width(st.f) THEN write_pad(st, width(st.f) - len, "0") ELSE st

\* NumericFormatter::format after read_width
Numeric_write(st, number, sgn) ==
  IF st.err # "" THEN st
  ELSE IF st.f.pad_zero
  THEN write(zero_pad(write(st, sgn), Len(number)), number)
  ELSE post_format(write(pre_format(st, Len(sgn) + Len(number)),
                         sgn \o number),
                   Len(sgn) + Len(number))

\* NumericFormatter::format
Numeric_format(st, number, negative, a) ==
  Numeric_write(read_width(st, a), number, sign_str(st.f, negative))

\* IntegralFormatter::format : the text of the number for the type code
Integral_number(f, x) ==
  IF f.rep \in {"b", "B", "x", "X"}
  THEN (IF f.alternate THEN <<"0", f.rep>> ELSE <<>>) \o
       number_text(x, IF f.rep \in {"b", "B"} THEN 2 ELSE 16)
  ELSE IF f.rep \in {"c", "d", NUL}
  THEN number_text(x, IF f.rep = "c" THEN 0 ELSE 10)
  ELSE IF f.rep = "o"
  THEN (IF f.alternate THEN <<"0">> ELSE <<>>) \o number_text(x, 8)
  ELSE number_text(x, 1)

\* IntegralFormatter::format, the switch on rep
Integral_switch(st, x, negative, a) ==
  IF st.err # "" THEN st
  ELSE IF st.f.rep \notin {"b", "B", "x", "X", "c", "d", NUL, "o", "s"}
  THEN [st EXCEPT !.err = ErrUnimplemented]
  ELSE Numeric_format(st, Integral_number(st.f, x), negative, a)

\* IntegralFormatter::format
Integral_format(st, x, negative, a) ==
  Integral_switch(read_width(st, a), x, negative, a)

\* `x = -x` in a T of 8 bits: the int result converted back to signed char
Wrap8(v) ==
  ((v + 128) % 256) - 128

\* Formatter<T>::format_to for integral T
Integral_format_to(T, st, x, a) ==
  IF st.err # "" THEN st
  ELSE IF T = "unsigned" THEN Integral_format(st, x, FALSE, a)
  ELSE IF x < 0
  THEN Integral_format(st, IF T = "schar" THEN Wrap8(-x) ELSE -x, TRUE, a)
  ELSE Integral_format(st, x, FALSE, a)

\* len of StringFormatter::format_to
String_len(f, s) ==
  IF f.p.arg # -1 THEN Min(f.p.arg, Len(s)) ELSE Len(s)

\* a pad computed from the whole text instead of the truncated one
String_write_untruncated(st, s) ==
  IF st.err # "" THEN st
  ELSE post_format(write(pre_format(st, Len(s)),
                         SubSeq(s, 1, String_len(st.f, s))),
                   Len(s))

\* StringFormatter::format_to after read_width and read_prec
String_write(st, s) ==
  IF st.err # "" THEN st
  ELSE post_format(write(pre_format(st, String_len(st.f, s)),
                         SubSeq(s, 1, String_len(st.f, s))),
                   String_len(st.f, s))

\* StringFormatter::format_to
String_format_to(st, s, a) ==
  String_write(read_prec(read_width(st, a), a), s)

\* format("({}, {})", a, b) of Formatter<std::pair<int, const char*>>
pair_text(n, s) ==
  <<"(">>
    \o Integral_format_to("int", Sink(DefaultFormatter("int"), 0), n, <<>>).out
    \o <<",", " ">>
    \o String_format_to(Sink(DefaultFormatter("str"), 0), s, <<>>).out
    \o <<")">>

\* Formatter<std::pair<A, B>>::format_to after read_width
Pair_write(st, text) ==
  IF st.err # "" THEN st
  ELSE post_format(write(pre_format(st, Len(text)), text), Len(text))

\* Formatter<std::pair<A, B>>::format_to
Pair_format_to(st, n, s, a) ==
  Pair_write(read_width(st, a), pair_text(n, s))

\* Formatter<C>::format_to : the elements from the i-th on, then ']'
RECURSIVE Container_elems(_, _, _, _)
Container_elems(st, v, i, a) ==
  IF i > Len(v) THEN write(st, <<"]">>)
  ELSE Container_elems(
         Integral_format_to("int",
                            write(st, IF i > 1 THEN <<",", " ">> ELSE <<>>),
                            v[i], a),
         v, i + 1, a)

\* an iteration that leaves out the first element
Container_format_to_tail(st, v, a) ==
  Container_elems(write(st, <<"[">>), v, 2, a)

\* Formatter<C>::format_to
Container_format_to(st, v, a) ==
  Container_elems(write(st, <<"[">>), v, 1, a)

\* FormatArgImpl<T>::format_to : fmt.format_to(ctx, value)
Formatter_format_to(arg, st, a) ==
  CASE arg.type = "str" -> String_format_to(st, arg.s, a)
    [] arg.type = "pair" -> Pair_format_to(st, arg.n, arg.s, a)
    [] arg.type = "vec" -> Container_format_to(st, arg.v, a)
    [] OTHER -> Integral_format_to(FormatterT(arg.type), st, arg.n, a)

(***************************************************************************)
(* Argument lists and templates of the runs.                               *)
(***************************************************************************)
MkArg(type, n, s, v) ==
  [type |-> type, n |-> n, s |-> s, v |-> v, f |-> DefaultFormatter(type)]

ArgInt(n) ==
  MkArg("int", n, <<>>, <<>>)

ArgBool(n) ==
  MkArg("bool", n, <<>>, <<>>)

ArgSChar(n) ==
  MkArg("schar", n, <<>>, <<>>)

ArgChar(n) ==
  MkArg("char", n, <<>>, <<>>)

ArgStr(s) ==
  MkArg("str", 0, s, <<>>)

ArgVec(v) ==
  MkArg("vec", 0, <<>>, v)

ArgPair(n, s) ==
  MkArg("pair", n, s, <<>>)

\* what may follow the template in memory (see Mem)
Sentinels == {NUL, "}"}

EngineChars == {"{", "}", ":", "0", "1", "a"}

ShortTemplates ==
  UNION {[1..k -> EngineChars] : k \in 0..MaxLen}

EngineArgLists ==
  {<<>>, <<ArgInt(42)>>, <<ArgStr(<<"a", "b">>)>>, <<ArgInt(42), ArgInt(3)>>,
   <<ArgStr(<<"a", "b">>), ArgInt(3)>>}

\* the renderings listed as testable properties
ExAutoExplicit == <<"{", "0", "}", " ", "{", "}", " ", "{", "1", "}">>
ExAuto == <<"{", "}", " ", "{", "}", " ", "{", "}">>
ExRange == <<"{", "5", "}">>
ExNested == <<"{", ":", "0", "{", "}", "}">>
ExEscape == <<"{", "{", "}", "}">>
ExReset == <<"{", "0", ":", "x", "}", " ", "{", "0", "}">>
ExResetWidth == <<"{", "0", ":", "*", ">", "3", "}", "{", "0", "}">>
ExCenterPrec == <<"{", ":", "^", "1", "1", ".", "5", "}">>
ExSeq == <<"{", "}">>

HelloWorld == <<"H", "e", "l", "l", "o", " ", "W", "o", "r", "l", "d">>

ExampleCases ==
  {<<ExAutoExplicit, <<ArgStr(<<"a">>), ArgStr(<<"b">>)>> >>,
   <<ExAuto, <<ArgInt(1), ArgInt(2), ArgInt(3)>> >>,
   <<ExRange, <<ArgInt(1)>> >>,
   <<ExNested, <<ArgInt(42), ArgInt(5)>> >>,
   <<ExEscape, <<>> >>,
   <<ExReset, <<ArgInt(255)>> >>,
   <<ExResetWidth, <<ArgInt(7)>> >>,
   <<ExCenterPrec, <<ArgStr(HelloWorld)>> >>,
   <<ExSeq, <<ArgVec(<<1, 2, 3>>)>> >>}

(***************************************************************************)
(* Specifiers of the grammar                                               *)
(*   [[fill]align] [sign] ['#'] ['0'] [width] ['.' precision] [type]       *)
(* placed in one placeholder "{:...}".  The second argument is the one a   *)
(* deferred width or precision refers to.                                  *)
(***************************************************************************)
FieldFills ==
  {<<>>, <<"<">>, <<">">>, <<"^">>, <<"*", "<">>, <<"*", ">">>, <<"*", "^">>}

FieldSigns ==
  {<<>>, <<"+">>, <<" ">>, <<"-">>}

FieldAlts ==
  {<<>>, <<"#">>}

FieldZeros ==
  {<<>>, <<"0">>}

FieldWidths ==
  {<<>>, <<"{", "}">>, <<"{", "1", "}">>}
    \cup {<<DigitChars[w + 1]>> : w \in 1..MaxWidth}

FieldPrecs ==
  {<<>>, <<".", "{", "}">>}
    \cup {<<".", DigitChars[q + 1]>> : q \in 0..MaxPrec}

IntegralCodes ==
  {<<>>, <<"d">>, <<"x">>, <<"o">>, <<"s">>, <<"c">>}

StringCodes ==
  {<<>>, <<"s">>}

NumericSpecs ==
  {fi \o si \o al \o ze \o wi \o co :
     fi \in FieldFills, si \in FieldSigns, al \in FieldAlts,
     ze \in FieldZeros, wi \in FieldWidths, co \in IntegralCodes}

StringSpecs ==
  {fi \o wi \o pr \o co :
     fi \in FieldFills, wi \in FieldWidths, pr \in FieldPrecs,
     co \in StringCodes}

Hello == <<"H", "e", "l", "l", "o">>

NumericArgLists ==
  {<<a, ArgInt(5)>> :
     a \in {ArgInt(42), ArgInt(-42), ArgBool(1), ArgChar(88),
            ArgVec(<<>>), ArgVec(<<1, -20>>)}}
    \cup {<<ArgInt(7)>>, <<ArgInt(7), ArgStr(Hello)>>, <<ArgInt(7), ArgInt(-1)>>}

StringArgLists ==
  {<<a, ArgInt(5), ArgInt(2)>> :
     a \in {ArgStr(Hello), ArgStr(<<>>), ArgPair(42, Hello)}}
    \cup {<<ArgStr(Hello)>>, <<ArgStr(Hello), ArgStr(Hello)>>}

\* every value of signed char
SCharValues ==
  (0 - 128)..127

\* templates that are not one well-formed placeholder
MalformedCases ==
  {<<"}">>, <<"{">>, <<"a", "}">>, <<"a", "{", "0">>, <<"{", ":">>}

Field(spec) ==
  <<"{", ":">> \o spec \o <<"}">>

(***************************************************************************)
(* xformat_to.  pc is the place of the scan: "scan" at the head of the     *)
(* while loop, "spec" before the test for ':', "close" before the test for *)
(* the closing brace, "format" before arg.format_to(ctx); "done" after a   *)
(* normal return, "error" after a throw, "overrun" when the loop goes on   *)
(* behind the end of the template.                                         *)
(* History: nauto counts the placeholders opened without an index, nnext   *)
(* the calls of ctx.next(), outAtOpen / itAtOpen the sink and the cursor   *)
(* when the last placeholder was opened, maxread the highest position      *)
(* dereferenced.                                                           *)
(***************************************************************************)
InitCommon ==
  /\ it = 0
  /\ carg = 0
  /\ out = <<>>
  /\ pc = "scan"
  /\ cur = -1
  /\ curAuto = FALSE
  /\ err = ""
  /\ nauto = 0
  /\ nnext = 0
  /\ outAtOpen = <<>>
  /\ itAtOpen = 0
  /\ maxread = -1

Init ==
  /\ sentinel \in Sentinels
  /\ \/ fmt \in ShortTemplates /\ args \in EngineArgLists
     \/ \E c \in ExampleCases : fmt = c[1] /\ args = c[2]
  /\ InitCommon

\* one placeholder with every specifier of the grammar
InitField ==
  /\ sentinel \in Sentinels
  /\ \/ \E sp \in NumericSpecs : fmt = Field(sp) /\ args \in NumericArgLists
     \/ \E sp \in StringSpecs : fmt = Field(sp) /\ args \in StringArgLists
     \/ \E c \in ExampleCases : fmt = c[1] /\ args = c[2]
     \/ fmt \in MalformedCases /\ args \in EngineArgLists
     \/ fmt \in {ExSeq, Field(<<>>)}
          /\ \E x \in SCharValues : args = <<ArgSChar(x)>>
  /\ InitCommon

Throw(msg) ==
  /\ pc' = "error"
  /\ err' = msg

\* any other character is written to the sink
ScanLiteral ==
  /\ pc = "scan"
  /\ it < Len(fmt)
  /\ Mem(it) \notin {"{", "}"}
  /\ out' = Append(out, Mem(it))
  /\ it' = it + 1
  /\ maxread' = Max(maxread, it)
  /\ UNCHANGED <<fmt, sentinel, args, carg, pc, cur, curAuto, err, nauto,
                 nnext, outAtOpen, itAtOpen>>

\* both braces are written
write_escaped_both(o, ch) ==
  o \o <<ch, ch>>

\* out.write('{') / out.write('}') of a doubled brace
write_escaped(o, ch) ==
  Append(o, ch)

\* `{{`
ScanOpenEscape ==
  /\ pc = "scan"
  /\ it < Len(fmt)
  /\ Mem(it) = "{"
  /\ Mem(it + 1) = "{"
  /\ out' = write_escaped(out, "{")
  /\ it' = it + 2
  /\ maxread' = Max(maxread, it + 1)
  /\ UNCHANGED <<fmt, sentinel, args, carg, pc, cur, curAuto, err, nauto,
                 nnext, outAtOpen, itAtOpen>>

\* a reset that keeps the formatter of the previous placeholder
reset_fmt_keep(a, idx) ==
  a

\* FormatArgImpl<T>::reset_fmt on the idx-th argument
reset_fmt(a, idx) ==
  [a EXCEPT ![idx + 1].f = DefaultFormatter(a[idx + 1].type)]

\* the index of a placeholder: explicit digits at `in`, or ctx.carg
placeholder_index(explicit, in, c) ==
  IF explicit THEN NumVal(in, 0) ELSE c

\* a cursor that also advances on an explicit index
placeholder_carg_always(explicit, c) ==
  c + 1

\* ctx.carg after the index was taken: `idx = ctx.carg++` only without digits
placeholder_carg(explicit, c) ==
  IF explicit THEN c ELSE c + 1

\* `{` that opens a placeholder: the index, ctx[idx], arg.reset_fmt()
OpenPlaceholder ==
  /\ pc = "scan"
  /\ it < Len(fmt)
  /\ Mem(it) = "{"
  /\ Mem(it + 1) # "{"
  /\ LET explicit == isdigit(Mem(it + 1))
         idx == placeholder_index(explicit, it + 1, carg)
         in == IF explicit THEN NumEnd(it + 1) ELSE it + 1
     IN /\ cur' = idx
        /\ curAuto' = ~explicit
        /\ carg' = placeholder_carg(explicit, carg)
        /\ nauto' = IF explicit THEN nauto ELSE nauto + 1
        /\ it' = in
        /\ maxread' = Max(maxread, in)
        /\ IF ctx_has(args, idx)
           THEN /\ args' = reset_fmt(args, idx)
                /\ pc' = "spec"
                /\ err' = err
           ELSE /\ args' = args
                /\ Throw(ErrNotEnough)
  /\ outAtOpen' = out
  /\ itAtOpen' = it
  /\ UNCHANGED <<fmt, sentinel, out, nnext>>

\* the state after arg.parse(it) returned or threw
Parsed(r) ==
  /\ args' = [args EXCEPT ![cur + 1].f = r.f]
  /\ it' = r.in
  /\ maxread' = Max(maxread, Max(it, r.hi))
  /\ IF r.err # "" THEN Throw(r.err)
     ELSE pc' = "close" /\ err' = err

\* the optional ':' and arg.parse(it)
ParseSpec ==
  /\ pc = "spec"
  /\ IF Mem(it) = ":"
     THEN Parsed(Formatter_parse(args[cur + 1].type,
                                 Cursor(args[cur + 1].f, it + 1)))
     ELSE /\ pc' = "close"
          /\ maxread' = Max(maxread, it)
          /\ UNCHANGED <<args, it, err>>
  /\ UNCHANGED <<fmt, sentinel, carg, out, cur, curAuto, nauto, nnext,
                 outAtOpen, itAtOpen>>

\* the closing brace of the placeholder, or the throw of "Expected '}'."
ExpectClose ==
  /\ pc = "close"
  /\ maxread' = Max(maxread, it)
  /\ IF Mem(it) # "}"
     THEN Throw(ErrExpectedClose) /\ it' = it
     ELSE pc' = "format" /\ it' = it + 1 /\ err' = err
  /\ UNCHANGED <<fmt, sentinel, args, carg, out, cur, curAuto, nauto, nnext,
                 outAtOpen, itAtOpen>>

\* the state after arg.format_to(ctx) returned or threw
Formatted(r) ==
  /\ out' = out \o r.out
  /\ args' = [args EXCEPT ![cur + 1].f = r.f]
  /\ carg' = r.carg
  /\ nnext' = nnext + r.k
  /\ IF r.err # "" THEN Throw(r.err)
     ELSE pc' = "scan" /\ err' = err

\* `arg.format_to(ctx)`
Format ==
  /\ pc = "format"
  /\ Formatted(Formatter_format_to(args[cur + 1],
                                   Sink(args[cur + 1].f, carg), args))
  /\ UNCHANGED <<fmt, sentinel, it, cur, curAuto, nauto, outAtOpen, itAtOpen,
                 maxread>>

\* `}}`
ScanCloseEscape ==
  /\ pc = "scan"
  /\ it < Len(fmt)
  /\ Mem(it) = "}"
  /\ Mem(it + 1) = "}"
  /\ out' = write_escaped(out, "}")
  /\ it' = it + 2
  /\ maxread' = Max(maxread, it + 1)
  /\ UNCHANGED <<fmt, sentinel, args, carg, pc, cur, curAuto, err, nauto,
                 nnext, outAtOpen, itAtOpen>>

\* `}` alone
ScanCloseError ==
  /\ pc = "scan"
  /\ it < Len(fmt)
  /\ Mem(it) = "}"
  /\ Mem(it + 1) # "}"
  /\ it' = it + 1
  /\ maxread' = Max(maxread, it + 1)
  /\ Throw(ErrEscape)
  /\ UNCHANGED <<fmt, sentinel, args, carg, out, cur, curAuto, nauto, nnext,
                 outAtOpen, itAtOpen>>

\* `while (it != end(fmt))` is false: xformat_to returns
Finish ==
  /\ pc = "scan"
  /\ it = Len(fmt)
  /\ pc' = "done"
  /\ UNCHANGED <<fmt, sentinel, args, it, carg, out, cur, curAuto, err, nauto,
                 nnext, outAtOpen, itAtOpen, maxread>>

\* the cursor has passed end(fmt): `it != end(fmt)` stays true and the loop
\* scans memory that is not the template
Overrun ==
  /\ pc = "scan"
  /\ it > Len(fmt)
  /\ pc' = "overrun"
  /\ UNCHANGED <<fmt, sentinel, args, it, carg, out, cur, curAuto, err, nauto,
                 nnext, outAtOpen, itAtOpen, maxread>>

Next ==
  \/ ScanLiteral
  \/ ScanOpenEscape
  \/ OpenPlaceholder
  \/ ParseSpec
  \/ ExpectClose
  \/ Format
  \/ ScanCloseEscape
  \/ ScanCloseError
  \/ Finish
  \/ Overrun

Spec ==
  Init /\ [][Next]_vars

SpecField ==
  InitField /\ [][Next]_vars

(***************************************************************************)
(* Properties.                                                             *)
(***************************************************************************)
Running == pc \in {"scan", "spec", "close", "format"}

\* the last placeholder opened is the whole template
WholeField ==
  /\ cur >= 0
  /\ cur < Len(args)
  /\ itAtOpen = 0
  /\ it = Len(fmt)

TheArg == args[cur + 1]

(* C1: with no deferred `{}` resolved, the auto cursor equals the number   *)
(* of placeholders opened without an index, the k-th such placeholder      *)
(* selects argument k-1, and "{0} {} {1}" with a, b renders "a a b",       *)
(* "{} {} {}" with 1, 2, 3 renders "1 2 3".                                *)
C1_AutoCursor ==
  /\ nnext = 0 => carg = nauto
  /\ (nnext = 0 /\ curAuto) => cur = nauto - 1
  /\ (fmt = ExAutoExplicit /\ pc \notin {"scan", "spec", "close", "format"})
       => (pc = "done" /\ out = <<"a", " ", "a", " ", "b">>)
  /\ (fmt = ExAuto /\ pc \notin {"scan", "spec", "close", "format"})
       => (pc = "done" /\ out = <<"1", " ", "2", " ", "3">>)

C1_Witness ==
  /\ fmt = ExAutoExplicit
  /\ pc = "done"
  /\ out = <<"a", " ", "a", " ", "b">>
  /\ carg = 1
  /\ nauto = 1

(* C2: a placeholder whose index is not smaller than the argument count    *)
(* ends the call with the format error "Not enough format arguments.";     *)
(* the sink holds exactly what it held when the placeholder was opened.    *)
C2_OutOfRange ==
  /\ cur >= Len(args)
       => (pc = "error" /\ err = ErrNotEnough /\ out = outAtOpen)
  /\ (fmt = ExRange /\ pc # "scan") => (pc = "error" /\ out = <<>>)

C2_Witness ==
  /\ cur >= Len(args)
  /\ pc = "error"
  /\ Len(out) > 0
  /\ itAtOpen > 0
  /\ itAtOpen + 2 < Len(fmt)

\* a template of ordinary characters and doubled braces only, from i on
RECURSIVE EscapedOnly(_, _)
EscapedOnly(t, i) ==
  IF i > Len(t) THEN TRUE
  ELSE IF t[i] \in {"{", "}"}
  THEN i < Len(t) /\ t[i + 1] = t[i] /\ EscapedOnly(t, i + 2)
  ELSE EscapedOnly(t, i + 1)

\* the text with each doubled brace replaced by a single one
RECURSIVE Unescaped(_, _)
Unescaped(t, i) ==
  IF i > Len(t) THEN <<>>
  ELSE IF t[i] \in {"{", "}"} THEN <<t[i]>> \o Unescaped(t, i + 2)
  ELSE <<t[i]>> \o Unescaped(t, i + 1)

(* C4: a template of ordinary characters and doubled braces, rendered with *)
(* no arguments, never fails and renders the template with each doubled    *)
(* brace replaced by a single one; "{{}}" renders "{}".                    *)
C4_Escapes ==
  (args = <<>> /\ EscapedOnly(fmt, 1))
    => /\ pc \in {"scan", "done"}
       /\ pc = "done" => out = Unescaped(fmt, 1)
       /\ (pc = "done" /\ fmt = ExEscape) => out = <<"{", "}">>

C4_Witness ==
  /\ args = <<>>
  /\ fmt = <<"a", "{", "{", "}", "}">> \/ fmt = <<"{", "{", "a">>
  /\ pc = "done"
  /\ Len(out) = Len(fmt) - 1 \/ Len(out) = Len(fmt) - 2

(* C7: when the engine is about to parse the specifier of a placeholder,   *)
(* the selected argument's formatter is the default-constructed one, with  *)
(* no resolved width or precision; "{0:x} {0}" with 255 renders "ff 255".  *)
C7_Reset ==
  /\ pc = "spec" => TheArg.f = DefaultFormatter(TheArg.type)
  /\ (fmt = ExReset /\ pc = "done")
       => out = <<"f", "f", " ", "2", "5", "5">>
  /\ (fmt = ExResetWidth /\ pc = "done") => out = <<"*", "*", "7", "7">>

C7_Witness ==
  /\ fmt = ExResetWidth
  /\ pc = "spec"
  /\ itAtOpen > 0
  /\ out = <<"*", "*", "7">>

\* the number of deferred `{}` (next auto argument) in a parsed specifier
DeferredAuto(f) ==
  (IF f.w.kind = "indirect" /\ f.w.val = -1 THEN 1 ELSE 0)
    + (IF f.p.kind = "indirect" /\ f.p.val = -1 THEN 1 ELSE 0)

(* C3: a deferred width or precision is not resolved by parse; rendering   *)
(* the placeholder resolves a deferred `{}` from the argument at the auto  *)
(* cursor and advances the cursor by exactly one for each deferred `{}` of *)
(* the placeholder, however often the size is needed; a deferred `{N}`     *)
(* reads argument N and leaves the cursor alone; "{:0{}}" with 42, 5       *)
(* renders "00042".                                                        *)
C3_DeferredOnce ==
  /\ (pc \in {"close", "format"})
       => (TheArg.f.w.arg = -1 /\ TheArg.f.p.arg = -1)
  /\ (WholeField /\ pc = "done")
       => /\ nnext = DeferredAuto(TheArg.f)
          /\ carg = nauto + DeferredAuto(TheArg.f)
          /\ (TheArg.f.w.kind = "indirect" /\ TheArg.f.w.val = -1)
               => TheArg.f.w.arg = to_size_t(args[nauto + 1])
          /\ (TheArg.f.w.kind = "indirect" /\ TheArg.f.w.val # -1)
               => TheArg.f.w.arg = to_size_t(args[TheArg.f.w.val + 1])
  /\ (fmt = ExNested /\ pc = "done" /\ args[1].type = "int" /\ args[1].n = 42)
       => out = <<"0", "0", "0", "4", "2">>

(* C5: a `}` met outside a placeholder and not followed in the template by *)
(* a second `}` ends the call with a format error and writes nothing.      *)
C5_StrayClose ==
  [][(/\ pc = "scan"
      /\ it < Len(fmt)
      /\ fmt[it + 1] = "}"
      /\ ~(it + 1 < Len(fmt) /\ fmt[it + 2] = "}"))
       => (pc' = "error" /\ err' \in FormatErrors /\ out' = out)]_vars

(* C6: a template that ends while a placeholder is open never has that     *)
(* placeholder rendered: the closing brace the engine accepts lies inside  *)
(* the template.                                                           *)
C6_Unterminated ==
  pc = "format" => it <= Len(fmt)

\* the unpadded text of the argument of the placeholder: sign, prefix, digits
\* for an integral argument, the truncated text for a string, "(a, b)" for a pair
Core ==
  CASE TheArg.type = "str" ->
         SubSeq(TheArg.s, 1, String_len(TheArg.f, TheArg.s))
    [] TheArg.type = "pair" -> pair_text(TheArg.n, TheArg.s)
    [] TheArg.type = "bool" ->
         sign_str(TheArg.f, FALSE) \o Integral_number(TheArg.f, TheArg.n)
    [] OTHER ->
         sign_str(TheArg.f, TheArg.n < 0)
           \o Integral_number(TheArg.f, IF TheArg.n < 0 THEN -TheArg.n
                                        ELSE TheArg.n)

RenderedField ==
  /\ WholeField
  /\ pc = "done"
  /\ TheArg.type \in {"int", "bool", "char", "str", "pair"}

(* C8: for an integral, string or pair argument with core text of length L *)
(* and resolved width W, the rendered field has length W when W > L and is *)
(* the core when W <= L, in the fill path and in the zero-pad path.        *)
C8_PaddingLength ==
  RenderedField
    => /\ width(TheArg.f) > Len(Core) => Len(out) = width(TheArg.f)
       /\ width(TheArg.f) <= Len(Core) => out = Core

\* the specifier of the placeholder starts with no fill/align part
NoFillAlign ==
  /\ Len(fmt) >= 3
  /\ fmt[2] = ":"
  /\ ~is_fill(fmt[3])
  /\ Len(fmt) >= 4 => ~is_fill(fmt[4])

(* C9: with a width larger than the core, no fill/align part and no `0`    *)
(* flag, the pad is made of spaces, before the core for an integral        *)
(* argument and after it for a string argument.                            *)
C9_DefaultPad ==
  (RenderedField /\ NoFillAlign /\ ~TheArg.f.pad_zero
     /\ width(TheArg.f) > Len(Core))
    => /\ TheArg.type \in {"int", "bool", "char"}
            => out = Rep(width(TheArg.f) - Len(Core), " ") \o Core
       /\ TheArg.type = "str"
            => out = Core \o Rep(width(TheArg.f) - Len(Core), " ")

TextTrue == <<"t", "r", "u", "e">>
TextFalse == <<"f", "a", "l", "s", "e">>

(* C10: the type code `s` is accepted exactly for a boolean argument:      *)
(* "{:s}" renders true or false for a boolean and is a format error for    *)
(* any other integral argument; "{:}" renders a boolean as true or false   *)
(* and "{:d}" as 1 or 0.                                                   *)
C10_BoolCode ==
  (cur = 0 /\ Len(args) > 0 /\ pc \in {"done", "error"})
    => /\ (fmt = Field(<<"s">>) /\ args[1].type = "bool")
            => (pc = "done"
                /\ out = IF args[1].n # 0 THEN TextTrue ELSE TextFalse)
       /\ (fmt = Field(<<"s">>) /\ args[1].type \in {"int", "char", "vec"})
            => (pc = "error" /\ err \in FormatErrors)
       /\ (fmt = Field(<<>>) /\ args[1].type = "bool")
            => (pc = "done"
                /\ out = IF args[1].n # 0 THEN TextTrue ELSE TextFalse)
       /\ (fmt = Field(<<"d">>) /\ args[1].type = "bool")
            => (pc = "done" /\ out = IF args[1].n # 0 THEN <<"1">> ELSE <<"0">>)

\* format_to of the selected argument resolves its sizes (an empty sequence
\* renders no element and resolves none)
Resolves ==
  TheArg.type # "vec" \/ Len(TheArg.v) > 0

\* the index of the argument a deferred width / precision refers to
WidthRef ==
  IF TheArg.f.w.val # -1 THEN TheArg.f.w.val ELSE carg

PrecRef ==
  IF TheArg.f.p.val # -1 THEN TheArg.f.p.val
  ELSE IF TheArg.f.w.kind = "indirect" /\ TheArg.f.w.val = -1 THEN carg + 1
  ELSE carg

\* the value n of an integral argument as a std::size_t
AsSize(n) ==
  IF n >= 0 THEN n ELSE HugeSize

\* the outcome of resolving the member m from the argument of index r
SizeFrom(m, r) ==
  IF r >= Len(args) THEN pc' = "error" /\ err' = ErrNotEnough
  ELSE IF args[r + 1].type \notin {"int", "schar", "bool", "char"}
  THEN pc' = "error" /\ err' = ErrExpectedSize
  ELSE args'[cur + 1].f[m].arg = AsSize(args[r + 1].n)

WidthResolved ==
  \/ TheArg.f.w.kind # "indirect"
  \/ /\ WidthRef < Len(args)
     /\ args[WidthRef + 1].type \in {"int", "schar", "bool", "char"}

(* C11: rendering a placeholder with a deferred width or precision ends    *)
(* with a format error when the referenced argument ({N}, or the next auto *)
(* argument) is missing or not of an integral type, and otherwise takes    *)
(* the value of the referenced argument, as an unsigned size, as the size. *)
C11_DeferredSize ==
  [][(pc = "format" /\ Resolves)
       => /\ TheArg.f.w.kind = "indirect" => SizeFrom("w", WidthRef)
          /\ (TheArg.f.p.kind = "indirect" /\ WidthResolved)
               => SizeFrom("p", PrecRef)]_vars

C11_Witness ==
  /\ pc = "error"
  /\ err = ErrExpectedSize
  /\ WholeField
  /\ TheArg.f.w.kind = "indirect"
  /\ TheArg.f.w.val = -1
  /\ args[carg].type = "str"
  /\ out = <<>>

\* the first min(P, length(s)) characters of the string argument
Truncated ==
  IF TheArg.f.p.arg = -1 THEN TheArg.s
  ELSE IF TheArg.f.p.arg < Len(TheArg.s) THEN SubSeq(TheArg.s, 1, TheArg.f.p.arg)
  ELSE TheArg.s

\* t with n pad characters ch around it
IsPadded(o, t, n, ch) ==
  \E k \in 0..n : o = Rep(k, ch) \o t \o Rep(n - k, ch)

(* C12: a string argument with precision P and width W renders the first   *)
(* min(P, length) characters, padded to W when W exceeds the truncated     *)
(* length and alone otherwise; "{:.3}" with Hello renders "Hel" and        *)
(* "{:^11.5}" with "Hello World" renders Hello with 3 spaces on each side. *)
C12_StringPrecision ==
  /\ (RenderedField /\ TheArg.type = "str")
       => IF width(TheArg.f) > Len(Truncated)
          THEN IsPadded(out, Truncated, width(TheArg.f) - Len(Truncated),
                        TheArg.f.padding)
          ELSE out = Truncated
  /\ (pc = "done" /\ fmt = Field(<<".", "3">>) /\ args[1] = ArgStr(Hello))
       => out = <<"H", "e", "l">>
  /\ (pc = "done" /\ fmt = ExCenterPrec)
       => out = <<" ", " ", " ", "H", "e", "l", "l", "o", " ", " ", " ">>

C12_Witness ==
  /\ RenderedField
  /\ TheArg.type = "str"
  /\ TheArg.f.p.arg = 2
  /\ TheArg.f.p.kind = "indirect"
  /\ width(TheArg.f) = 5
  /\ TheArg.f.fill = "^"
  /\ out = <<"*", "H", "e", "*", "*">>

\* the element e rendered alone with the specifier parsed for the placeholder
Elem(e) ==
  Integral_format_to("int", Sink(TheArg.f, carg), e, args).out

\* the elements from the i-th on, each after the first preceded by ", "
RECURSIVE Joined(_, _)
Joined(v, i) ==
  IF i > Len(v) THEN <<>>
  ELSE (IF i > 1 THEN <<",", " ">> ELSE <<>>) \o Elem(v[i]) \o Joined(v, i + 1)

(* C13: a sequence argument renders as `[`, its elements in order, each    *)
(* rendered with the one specifier of the placeholder and separated by     *)
(* `, `, then `]`; the empty sequence renders "[]" and the sequence        *)
(* 1, 2, 3 with "{}" renders "[1, 2, 3]".                                  *)
C13_Sequence ==
  /\ (WholeField /\ pc = "done" /\ TheArg.type = "vec")
       => /\ out = <<"[">> \o Joined(TheArg.v, 1) \o <<"]">>
          /\ TheArg.v = <<>> => out = <<"[", "]">>
  /\ (pc = "done" /\ fmt = ExSeq /\ args = <<ArgVec(<<1, 2, 3>>)>>)
       => out = <<"[", "1", ",", " ", "2", ",", " ", "3", "]">>

C13_Witness ==
  /\ WholeField
  /\ pc = "done"
  /\ TheArg.type = "vec"
  /\ TheArg.v = <<1, -20>>
  /\ TheArg.f.rep = "x"
  /\ TheArg.f.alternate
  /\ width(TheArg.f) = 5
  /\ TheArg.f.padding = "*"
  /\ TheArg.f.fill = "<"
  /\ out = <<"[", "0", "x", "1", "*", "*", ",", " ", "-", "0", "x", "1", "4",
             "]">>

\* the base prefix of the alternate form
Prefix(f) ==
  IF ~f.alternate THEN <<>>
  ELSE IF f.rep \in {"b", "B", "x", "X"} THEN <<"0", f.rep>>
  ELSE IF f.rep = "o" THEN <<"0">>
  ELSE <<>>

\* the text of the magnitude without the prefix
DigitsOnly ==
  Integral_number([TheArg.f EXCEPT !.alternate = FALSE],
                  IF TheArg.n < 0 THEN -TheArg.n ELSE TheArg.n)

(* C14: in zero-pad mode an integral field is the sign, then the base      *)
(* prefix of the alternate form, then the '0' characters, then the digits: *)
(* the zeros are never before the prefix.                                  *)
C14_ZeroPadOrder ==
  (RenderedField /\ TheArg.type \in {"int", "bool", "char"}
     /\ TheArg.f.pad_zero)
    => \E k \in 0..width(TheArg.f) :
         out = sign_str(TheArg.f, TheArg.n < 0) \o Prefix(TheArg.f)
                 \o Rep(k, "0") \o DigitsOnly

\* the i-th character of the template (1-based), NUL behind its end
At(i) ==
  IF i <= Len(fmt) THEN fmt[i] ELSE NUL

\* the template is "{:" and a specifier for an integral formatter, parsed
NumericField ==
  /\ At(1) = "{"
  /\ At(2) = ":"
  /\ cur = 0
  /\ Len(args) > 0
  /\ args[1].type \in {"int", "schar", "bool", "char", "vec"}
  /\ pc \in {"close", "format", "scan", "done"}

\* the length of the fill/align part the specifier starts with
FillAlignLen ==
  IF is_fill(At(3)) THEN 1
  ELSE IF At(3) # NUL /\ is_fill(At(4)) THEN 2
  ELSE 0

\* the place (1-based) of the `0` flag : after fill/align, sign and '#'
ZeroFlagPos ==
  3 + FillAlignLen
    + (IF At(3 + FillAlignLen) \in {"+", "-", " "} THEN 1 ELSE 0)
    + (IF At(3 + FillAlignLen
              + (IF At(3 + FillAlignLen) \in {"+", "-", " "} THEN 1 ELSE 0))
            = "#"
       THEN 1 ELSE 0)

HasZeroFlag ==
  At(ZeroFlagPos) = "0"

\* the pad character of an explicit fill/align part
ExplicitFill ==
  IF FillAlignLen = 2 THEN At(3) ELSE " "

\* the alignment character of an explicit fill/align part
ExplicitAlign ==
  At(2 + FillAlignLen)

(* C15: after a numeric specifier was parsed, pad_zero is true exactly     *)
(* when the specifier has the `0` flag and no fill/align part; with a      *)
(* fill/align part the `0` flag is consumed, and the field is padded with  *)
(* the fill character on the side the alignment gives.                     *)
C15_ZeroVsFill ==
  NumericField
    => /\ TheArg.f.pad_zero <=> (HasZeroFlag /\ FillAlignLen = 0)
       /\ (FillAlignLen > 0 /\ HasZeroFlag)
            => /\ it >= ZeroFlagPos
               /\ TheArg.f.padding = ExplicitFill
               /\ TheArg.f.fill = ExplicitAlign
       /\ (FillAlignLen > 0 /\ RenderedField /\ width(TheArg.f) > Len(Core))
            => LET n == width(TheArg.f) - Len(Core)
               IN /\ IsPadded(out, Core, n, ExplicitFill)
                  /\ ExplicitAlign = "<" => out = Core \o Rep(n, ExplicitFill)
                  /\ ExplicitAlign = ">" => out = Rep(n, ExplicitFill) \o Core

C15_Witness ==
  /\ NumericField
  /\ RenderedField
  /\ fmt = Field(<<"*", "<", "+", "0", "5">>)
  /\ ~TheArg.f.pad_zero
  /\ out = <<"+", "4", "2", "*", "*">>

\* the alignment of the field: the explicit one, or right for numerics and
\* left for strings and pairs
FieldAlign ==
  IF FillAlignLen > 0 THEN ExplicitAlign
  ELSE IF TheArg.type \in {"int", "bool", "char"} THEN ">"
  ELSE "<"

\* the number of pad characters before the core
PadBefore(n) ==
  CASE FieldAlign = "<" -> 0
    [] FieldAlign = ">" -> n
    [] OTHER -> n \div 2

(* C16: in the fill-padding path with core length L < width W the field is *)
(* the core with W-L fill characters (the explicit fill, or space): all    *)
(* after the core for left, all before it for right, floor((W-L)/2) before *)
(* and ceil((W-L)/2) after for center.                                     *)
C16_FillDistribution ==
  (RenderedField /\ At(2) = ":" /\ ~TheArg.f.pad_zero
     /\ width(TheArg.f) > Len(Core))
    => LET n == width(TheArg.f) - Len(Core)
       IN out = Rep(PadBefore(n), ExplicitFill) \o Core
                  \o Rep(n - PadBefore(n), ExplicitFill)

(* C17: a negative value of a signed integer type, the minimum of the type *)
(* included, renders with an empty specifier as one `-` followed by the    *)
(* decimal digits of its magnitude.                                        *)
C17_NegativeDecimal ==
  (WholeField /\ pc = "done" /\ fmt \in {ExSeq, Field(<<>>)}
     /\ TheArg.type \in {"int", "schar"} /\ TheArg.n < 0)
    => out = <<"-">> \o to_digits(0 - TheArg.n, 10)

(* C18: during the scan of a template of length n the engine and the       *)
(* specifier parsers read template characters at positions 0..n-1 only:    *)
(* the highest position dereferenced is below n.                           *)
C18_ReadsInside ==
  maxread < Len(fmt)

====
